---- MODULE Spec2Model ----
(***************************************************************************)
(* Fable.Remoting.Ts: createService wraps a base object in a Proxy whose   *)
(* get trap resolves every property read (src/src/index.ts).  The model    *)
(* keeps the proxy's closure ($http, serviceName, withMsgPack), the base   *)
(* object, the transport's default headers as heap objects (so that        *)
(* in-place deletion and copy-by-spread are distinguishable), and the      *)
(* requests handed to the transport.                                       *)
(***************************************************************************)
EXTENDS Integers, Sequences, FiniteSets, TLC

VARIABLES
    created,      \* TRUE once createService has returned the proxy
    serviceName,  \* closure: destructured config.serviceName (a JS value)
    withMsgPack,  \* closure: destructured config.withMsgPack (a JS value)
    http,         \* $http: [baseURL, headers], headers a reference into heap
    heap,         \* object store: sequence of header objects
    target,       \* the base object the proxy wraps
    requests,     \* requests handed to the transport, in dispatch order
    lastRead,     \* the latest property read on the proxy and what it returned
    lastCall,     \* the latest call (createService or a proxy member) and its outcome
    initialHeaders, \* history: the default headers the transport was created with
    headerOps,    \* history: the addHeaders/removeHeaders calls that completed
    addInterceptorReturns  \* history: what each completed addInterceptor call returned

vars == <<created, serviceName, withMsgPack, http, heap, target, requests,
          lastRead, lastCall, headerOps, addInterceptorReturns,
                   initialHeaders>>

----------------------------------------------------------------------------
(* Bounds of the model.                                                    *)

MaxCalls == 2        \* requests dispatched per run
MaxArgs == 2         \* arguments of one synthesized call
MaxHeaderOps == 2    \* completed header mutations per run

----------------------------------------------------------------------------
(* JavaScript values.                                                      *)

Undef == [t |-> "undefined"]
Null == [t |-> "null"]
Num(n) == [t |-> "number", n |-> n]
Str(s) == [t |-> "string", s |-> s]
Fn(f) == [t |-> "function", f |-> f]
Obj(o) == [t |-> "object", o |-> o]
Arr(items) == [t |-> "Array", items |-> items]
Bytes(b) == [t |-> "Uint8Array", bytes |-> b]

\* x is null or undefined (what ?? and the destructuring defaults test)
Nullish(x) == x = Undef \/ x = Null

\* JS truthiness of the values the model uses
Truthy(x) ==
    CASE x.t = "undefined" -> FALSE
      [] x.t = "null" -> FALSE
      [] x.t = "boolean" -> x.b
      [] x.t = "number" -> x.n # 0
      [] x.t = "string" -> x.s # ""
      [] OTHER -> TRUE

Bool(b) == [t |-> "boolean", b |-> b]

\* String(x) / template-literal conversion of the values the model uses
ToStr(x) ==
    CASE x.t = "undefined" -> "undefined"
      [] x.t = "null" -> "null"
      [] x.t = "string" -> x.s
      [] OTHER -> "[object]"

----------------------------------------------------------------------------
(* Names.                                                                  *)

\* the five control names of BaseService in the documented variant
ReservedNames ==
    {"addHeaders", "removeHeaders", "addInterceptor", "removeInterceptor",
     "createRequest"}

RemoteNames == {"getSample", "postSample"}

Names == ReservedNames \cup RemoteNames

----------------------------------------------------------------------------
(* The base object.  A member slot is absent, a data property holding a    *)
(* value, or an accessor whose getter throws.                              *)

Absent == [kind |-> "absent", value |-> Undef, throws |-> "none"]
Data(v) == [kind |-> "data", value |-> v, throws |-> "none"]
Getter(e) == [kind |-> "getter", value |-> Undef, throws |-> e]

MemberValues == {Undef, Null, Num(0), Str("IExist"), Fn("own")}

Slots ==
    {Absent} \cup {Data(v) : v \in MemberValues}
             \cup {Getter(e) : e \in {"TypeError", "Error"}}

EmptyObject == [n \in Names |-> Absent]

\* Reflect.get(target, property, receiver): the value, or the getter's error
ReflectGet(tgt, property) ==
    LET slot == tgt[property] IN
    IF slot.kind = "getter"
    THEN [threw |-> slot.throws, value |-> Undef]
    ELSE [threw |-> "none", value |-> slot.value]

----------------------------------------------------------------------------
(* The Proxy get trap.                                                     *)

Resolved(kind, value, property) ==
    [kind |-> kind, value |-> value, property |-> property]

\* `var existing` after the try/catch around Reflect.get
Existing(tgt, property) ==
    LET r == ReflectGet(tgt, property) IN
    IF r.threw = "none" THEN r.value
    ELSE IF r.threw = "TypeError" THEN Null
    ELSE Undef

\* a trap that remembers what it returned for a name the last time
GetTrapCached(tgt, property) ==
    IF lastRead.name = property THEN lastRead.result
    ELSE IF property = "addHeaders" THEN Resolved("addHeaders", Undef, property)
    ELSE IF property = "removeHeaders" THEN Resolved("removeHeaders", Undef, property)
    ELSE IF ~Nullish(Existing(tgt, property))
         THEN Resolved("existing", Existing(tgt, property), property)
         ELSE Resolved("defaultTrap", Undef, property)

\* a trap whose catch lets every error but a TypeError escape the read
GetTrapRethrow(tgt, property) ==
    IF property = "addHeaders" THEN Resolved("addHeaders", Undef, property)
    ELSE IF property = "removeHeaders" THEN Resolved("removeHeaders", Undef, property)
    ELSE IF ReflectGet(tgt, property).threw = "Error"
         THEN Resolved("threw", Undef, property)
    ELSE IF ~Nullish(Existing(tgt, property))
         THEN Resolved("existing", Existing(tgt, property), property)
         ELSE Resolved("defaultTrap", Undef, property)

\* get(target, property, reciever)
GetTrap(tgt, property) ==
    IF property = "addHeaders" THEN Resolved("addHeaders", Undef, property)
    ELSE IF property = "removeHeaders" THEN Resolved("removeHeaders", Undef, property)
    ELSE IF ~Nullish(Existing(tgt, property))
         THEN Resolved("existing", Existing(tgt, property), property)
         ELSE Resolved("defaultTrap", Undef, property)

----------------------------------------------------------------------------
(* Header objects.  A header object maps every header name to its value or *)
(* to NoHeader when the object has no such key.                            *)

NoHeader == "<absent>"

HeaderNames == {"Content-Type", "Accept", "x-custom-header"}

NoHeaders == [k \in HeaderNames |-> NoHeader]

\* { 'Content-Type': 'application/msgpack', 'Accept': 'application/json, application/msgpack' }
MsgPackHeaders ==
    [k \in HeaderNames |->
        IF k = "Content-Type" THEN "application/msgpack"
        ELSE IF k = "Accept" THEN "application/json, application/msgpack"
        ELSE NoHeader]

CustomFalse ==
    [k \in HeaderNames |-> IF k = "x-custom-header" THEN "false" ELSE NoHeader]
CustomTrue == [CustomFalse EXCEPT !["x-custom-header"] = "true"]
AcceptJson == [NoHeaders EXCEPT !["Accept"] = "application/json"]

\* an object spread that drops the keys of the left operand
SpreadReplace(a, b) == b

\* { ...a, ...b }
Spread(a, b) == [k \in HeaderNames |-> IF b[k] # NoHeader THEN b[k] ELSE a[k]]

\* delete o[key]
Delete(o, key) == [k \in HeaderNames |-> IF k = key THEN NoHeader ELSE o[k]]

\* for (const header of headers) { delete o[header]; }
RECURSIVE DeleteEach(_, _)
DeleteEach(o, keys) ==
    IF keys = <<>> THEN o
    ELSE DeleteEach(Delete(o, Head(keys)), Tail(keys))

----------------------------------------------------------------------------
(* The codec (msgpack): positive fixint, nil, fixstr, fixarray, fixmap.    *)

CharCodes(s) ==
    CASE s = "request" -> <<114, 101, 113, 117, 101, 115, 116>>
      [] s = "response" -> <<114, 101, 115, 112, 111, 110, 115, 101>>
      [] s = "a" -> <<97>>
      [] s = "method" -> <<109, 101, 116, 104, 111, 100>>
      [] s = "url" -> <<117, 114, 108>>
      [] s = "DELETE" -> <<68, 69, 76, 69, 84, 69>>
      [] s = "custom" -> <<99, 117, 115, 116, 111, 109>>
      [] OTHER -> <<>>

\* values the codec encodes; a function makes serialize throw
RECURSIVE Serializable(_)
Serializable(v) ==
    CASE v.t = "number" -> TRUE
      [] v.t = "string" -> TRUE
      [] v.t = "undefined" -> TRUE
      [] v.t = "null" -> TRUE
      [] v.t = "Array" -> \A i \in 1..Len(v.items) : Serializable(v.items[i])
      [] v.t = "object" -> TRUE
      [] OTHER -> FALSE

\* the keys an object holds
OwnKeys(o) == {k \in DOMAIN o : o[k] # NoHeader}

\* the entries of a plain object with string values, key then value
RECURSIVE EncodeEntries(_, _)
EncodeEntries(o, keys) ==
    IF keys = {} THEN <<>>
    ELSE LET k == CHOOSE x \in keys : TRUE IN
         <<160 + Len(CharCodes(k))>> \o CharCodes(k)
         \o <<160 + Len(CharCodes(o[k]))>> \o CharCodes(o[k])
         \o EncodeEntries(o, keys \ {k})

RECURSIVE Encode(_)
RECURSIVE EncodeAll(_)
EncodeAll(items) ==
    IF items = <<>> THEN <<>>
    ELSE Encode(Head(items)) \o EncodeAll(Tail(items))

Encode(v) ==
    CASE v.t = "number" -> <<v.n>>
      [] v.t = "undefined" -> <<192>>
      [] v.t = "null" -> <<192>>
      [] v.t = "string" -> <<160 + Len(CharCodes(v.s))>> \o CharCodes(v.s)
      [] v.t = "Array" -> <<144 + Len(v.items)>> \o EncodeAll(v.items)
      [] v.t = "object" ->
            <<128 + Cardinality(OwnKeys(v.o))>> \o EncodeEntries(v.o, OwnKeys(v.o))

\* msgpack.serialize(value)
Serialize(v) == Bytes(Encode(v))

\* the structured values a server answers with
Decodable ==
    {Num(1), Str("a"), Arr(<<Num(1), Num(2)>>), Arr(<<Str("a")>>)}

\* bytes that are the encoding of a value
WellFormed(b) == \E v \in Decodable : Serialize(v) = b

\* msgpack.deserialize(bytes), for well-formed input
Deserialize(b) == CHOOSE v \in Decodable : Serialize(v) = b

\* 0xc1, the byte no msgpack encoding starts with
Malformed == Bytes(<<193>>)

----------------------------------------------------------------------------
(* createService.                                                          *)

NoAxiosConfig == [given |-> FALSE, hasHeaders |-> FALSE, headers |-> NoHeaders]
AxiosConfig(hasHeaders, headers) ==
    [given |-> TRUE, hasHeaders |-> hasHeaders, headers |-> headers]

\* the `headers` of the object handed to axios.create
CreateHeaders(wmp, axiosConfig) ==
    IF axiosConfig.given /\ axiosConfig.hasHeaders THEN axiosConfig.headers
    ELSE IF Truthy(wmp) THEN MsgPackHeaders
    ELSE NoHeaders

NoRead == [name |-> "", slot |-> Absent, result |-> Resolved("none", Undef, "")]

\* the value a call returns: a pending result bound to a request, or a plain value
Promise(request) == [t |-> "Promise", request |-> request]
ProxyObject == [t |-> "Proxy"]
OwnResult == [t |-> "own"]

Call(op, args, kind, outcome, error, request, sentBefore) ==
    [op |-> op, args |-> args, kind |-> kind, outcome |-> outcome,
     error |-> error, request |-> request, sentBefore |-> sentBefore,
     value |-> IF outcome = "promise" THEN Promise(request)
               ELSE IF kind = "createService" /\ outcome = "returned" THEN ProxyObject
               ELSE IF kind = "existing" /\ outcome = "returned" THEN OwnResult
               ELSE Undef]

NoCall == Call("", <<>>, "none", "none", "none", 0, 0)

\* a constructor that rejects a missing or empty baseURL / serviceName
ValidatingOutcome(config) ==
    IF Truthy(config.baseURL) /\ Truthy(config.serviceName)
    THEN "returned" ELSE "threw"

\* createService has no validation: it always returns the proxy
CreateOutcome(config) == "returned"

createService(config, axiosConfig, baseService) ==
    /\ ~created
    /\ lastCall.op = ""
    /\ lastCall' = Call("createService", <<config.baseURL, config.serviceName>>,
                        "createService", CreateOutcome(config),
                        IF CreateOutcome(config) = "threw" THEN "Error" ELSE "none",
                        0, Len(requests))
    /\ IF CreateOutcome(config) = "returned"
       THEN /\ created' = TRUE
            /\ serviceName' = config.serviceName
            /\ withMsgPack' = config.withMsgPack
            /\ heap' = <<CreateHeaders(config.withMsgPack, axiosConfig)>>
            /\ initialHeaders' = heap'[1]
            /\ http' = [baseURL |-> config.baseURL, headers |-> 1]
            /\ target' = baseService
       ELSE UNCHANGED <<created, serviceName, withMsgPack, heap, http, target,
                        initialHeaders>>
    /\ UNCHANGED <<requests, lastRead, headerOps, addInterceptorReturns>>

Init ==
    /\ created = FALSE
    /\ serviceName = Undef
    /\ withMsgPack = Undef
    /\ http = [baseURL |-> Undef, headers |-> 0]
    /\ heap = <<>>
    /\ target = EmptyObject
    /\ requests = <<>>
    /\ lastRead = NoRead
    /\ lastCall = NoCall
    /\ initialHeaders = NoHeaders
    /\ headerOps = <<>>
    /\ addInterceptorReturns = <<>>

----------------------------------------------------------------------------
(* The transport ($http).  A request takes its headers when it is handed   *)
(* to the transport; the response arrives later.                           *)

NoResponse == [data |-> Undef, status |-> 0, headers |-> NoHeaders]

Response(data, status, headers) ==
    [data |-> data, status |-> status, headers |-> headers]

\* a transport that keeps a reference to the defaults instead of a copy
DispatchHeadersShared(defaultsRef, hp) == defaultsRef

\* headers: { ...this.defaults.headers }: the request holds a fresh copy
DispatchHeaders(defaultsRef, hp) == Len(hp) + 1

\* $http.get(url) / $http.post(url, data)
Dispatch(method, url, hasBody, body) ==
    /\ heap' = Append(heap, heap[http.headers])
    /\ requests' = Append(requests,
          [method |-> method, url |-> url, baseURL |-> http.baseURL,
           hasBody |-> hasBody, body |-> body,
           headers |-> DispatchHeaders(http.headers, heap),
           opsSeen |-> Len(headerOps),
           state |-> "pending", response |-> NoResponse, result |-> NoResponse,
           error |-> "none", rejection |-> "none"])

----------------------------------------------------------------------------
(* defaultTapInternal / defaultTrap.                                       *)

\* `${serviceName}/${String(property)}`
Url(sn, property) == <<ToStr(sn), "/", property>>

\* a trap that posts only from the second argument on
IsPostOffByOne(args) == Len(args) > 1

\* const isPost = arguments.length > 0
IsPost(args) == Len(args) > 0

\* a trap that never encodes
RequestDataRaw(wmp, args) == Arr(args)

\* let data = [...arguments]; if (withMsgPack) { data = msgpack.serialize([...arguments]); }
RequestData(wmp, args) ==
    IF Truthy(wmp) THEN Serialize(Arr(args)) ELSE Arr(args)

\* return isPost ? $http.post(url, data) : $http.get(url): the transport's own promise
TrapResult(wmp, response) == response

\* the rejection of the transport's promise is the call's rejection
TrapRejection(e) == e

defaultTrap(property, args) ==
    IF Truthy(withMsgPack) /\ ~Serializable(Arr(args))
    THEN \* msgpack.serialize throws before any request is made
         /\ lastCall' = Call(property, args, "defaultTrap", "threw", "Error",
                             0, Len(requests))
         /\ UNCHANGED <<heap, requests>>
    ELSE /\ Len(requests) < MaxCalls
         /\ IF IsPost(args)
            THEN Dispatch("post", Url(serviceName, property), TRUE,
                          RequestData(withMsgPack, args))
            ELSE Dispatch("get", Url(serviceName, property), FALSE, Undef)
         /\ lastCall' = Call(property, args, "defaultTrap", "promise", "none",
                             Len(requests) + 1, Len(requests))

----------------------------------------------------------------------------
(* addHeadersInternal / removeHeadersInternal.                             *)

TypeOf(x) ==
    IF x.t \in {"null", "object", "Array", "Uint8Array"} THEN "object" ELSE x.t

HeaderOp(op, headers, names) == [op |-> op, headers |-> headers, names |-> names]

\* the header keys a spread of x contributes: none unless x is an object
OwnHeaders(x) == IF x.t = "object" THEN x.o ELSE NoHeaders

\* an addHeaders that accepts whatever it is given
InvalidHeadersNever(headers) == FALSE

\* !headers || typeof headers !== 'object'
InvalidHeaders(headers) == ~Truthy(headers) \/ TypeOf(headers) # "object"

\* a removeHeaders whose rest parameter is never null
NoNamesNever(args) == FALSE

\* arguments.length <= 0 ? null : [...arguments], then !headers
NoNames(args) == Len(args) <= 0

addHeaders(args) ==
    LET headers == IF Len(args) > 0 THEN args[1] ELSE Null IN
    IF InvalidHeaders(headers)
    THEN /\ lastCall' = Call("addHeaders", args, "addHeaders", "threw",
                             "TypeError", 0, Len(requests))
         /\ UNCHANGED <<heap, http, headerOps>>
    ELSE /\ Len(headerOps) < MaxHeaderOps
         /\ heap' = Append(heap, Spread(heap[http.headers], OwnHeaders(headers)))
         /\ http' = [http EXCEPT !.headers = Len(heap) + 1]
         /\ headerOps' = Append(headerOps, HeaderOp("add", OwnHeaders(headers), <<>>))
         /\ lastCall' = Call("addHeaders", args, "addHeaders", "returned",
                             "none", 0, Len(requests))

\* the header names of removeHeaders' arguments, as property keys
Keys(args) == [i \in 1..Len(args) |-> ToStr(args[i])]

removeHeaders(args) ==
    IF NoNames(args)
    THEN /\ lastCall' = Call("removeHeaders", args, "removeHeaders", "threw",
                             "TypeError", 0, Len(requests))
         /\ UNCHANGED <<heap, http, headerOps>>
    ELSE /\ Len(headerOps) < MaxHeaderOps
         /\ heap' = [heap EXCEPT ![http.headers] = DeleteEach(@, Keys(args))]
         /\ headerOps' = Append(headerOps, HeaderOp("remove", NoHeaders, Keys(args)))
         /\ lastCall' = Call("removeHeaders", args, "removeHeaders", "returned",
                             "none", 0, Len(requests))
         /\ UNCHANGED http

----------------------------------------------------------------------------
(* A member call on the proxy: service[property](...args).                 *)

\* calling a member the base object owns: the base object's own behaviour
CallExisting(property, args, value) ==
    /\ lastCall' = IF value.t = "function"
                   THEN Call(property, args, "existing", "returned", "none",
                             0, Len(requests))
                   ELSE Call(property, args, "existing", "threw", "TypeError",
                             0, Len(requests))
    /\ UNCHANGED <<heap, http, requests, headerOps>>

Invoke(property, args) ==
    /\ created
    /\ LET f == GetTrap(target, property) IN
       IF f.kind = "addHeaders"
       THEN addHeaders(args) /\ UNCHANGED requests
       ELSE IF f.kind = "removeHeaders"
       THEN removeHeaders(args) /\ UNCHANGED requests
       ELSE IF f.kind = "existing"
       THEN CallExisting(property, args, f.value)
       ELSE defaultTrap(property, args) /\ UNCHANGED <<http, headerOps>>
    /\ addInterceptorReturns' =
          IF property = "addInterceptor" /\ lastCall'.outcome # "threw"
          THEN Append(addInterceptorReturns, lastCall'.value)
          ELSE addInterceptorReturns
    /\ UNCHANGED <<created, serviceName, withMsgPack, target, lastRead,
                   initialHeaders>>

----------------------------------------------------------------------------
(* The transport settles a pending request.                                *)

Resolve(i, data, status) ==
    /\ i \in 1..Len(requests)
    /\ requests[i].state = "pending"
    /\ LET response == Response(data, status, heap[requests[i].headers]) IN
       requests' = [requests EXCEPT ![i].state = "fulfilled",
                                    ![i].response = response,
                                    ![i].result = TrapResult(withMsgPack, response)]
    /\ UNCHANGED <<created, serviceName, withMsgPack, http, heap, target,
                   lastRead, lastCall, headerOps, addInterceptorReturns,
                   initialHeaders>>

Reject(i, e) ==
    /\ i \in 1..Len(requests)
    /\ requests[i].state = "pending"
    /\ requests' = [requests EXCEPT ![i].state = "rejected",
                                    ![i].error = e,
                                    ![i].rejection = TrapRejection(e)]
    /\ UNCHANGED <<created, serviceName, withMsgPack, http, heap, target,
                   lastRead, lastCall, headerOps, addInterceptorReturns,
                   initialHeaders>>

----------------------------------------------------------------------------
(* The caller changes the base object; the caller reads a proxy property.  *)

SetMember(name, slot) ==
    /\ created
    /\ target[name] # slot
    /\ target' = [target EXCEPT ![name] = slot]
    /\ UNCHANGED <<created, serviceName, withMsgPack, http, heap, requests,
                   lastRead, lastCall, headerOps, addInterceptorReturns,
                   initialHeaders>>

Read(property) ==
    /\ created
    /\ lastRead' = [name |-> property, slot |-> target[property],
                    result |-> GetTrap(target, property)]
    /\ UNCHANGED <<created, serviceName, withMsgPack, http, heap, target,
                   requests, lastCall, headerOps, addInterceptorReturns,
                   initialHeaders>>

----------------------------------------------------------------------------
(* Inputs.                                                                 *)

ValidJson ==
    [baseURL |-> Str("http://localhost/"), serviceName |-> Str("IMyService"),
     withMsgPack |-> Undef]

ValidMsgPack ==
    [baseURL |-> Str("http://localhost/"), serviceName |-> Str("IMyService"),
     withMsgPack |-> Bool(TRUE)]

ValidConfigs == {ValidJson, ValidMsgPack}

\* configs whose baseURL or serviceName is missing or empty
InvalidConfigs ==
    {[ValidJson EXCEPT !.baseURL = Undef],
     [ValidJson EXCEPT !.serviceName = Undef],
     [ValidMsgPack EXCEPT !.serviceName = Str("")]}

\* the names whose members the caller sets on the base object
BaseNames == {"getSample", "addHeaders", "addInterceptor"}

----------------------------------------------------------------------------
(* Member resolution: the caller changes the base object and reads proxy   *)
(* properties.                                                             *)

NextResolve ==
    \/ \E config \in ValidConfigs : createService(config, NoAxiosConfig, EmptyObject)
    \/ \E name \in BaseNames, slot \in Slots : SetMember(name, slot)
    \/ \E property \in Names : Read(property)

SpecResolve == Init /\ [][NextResolve]_vars

\* C1: a read of a non-reserved name whose member on the base object is, at
\* the moment of the read, neither null nor undefined returns that member's
\* own value, whatever was read or changed before; never a synthesized call.
C1_BaseMemberWins ==
    (/\ lastRead.name \in Names \ ReservedNames
     /\ lastRead.slot.kind = "data"
     /\ ~Nullish(lastRead.slot.value))
    => lastRead.result = Resolved("existing", lastRead.slot.value, lastRead.name)

\* a falsy member was read and returned, and the base object has changed since
C1_Witness ==
    /\ lastRead.name = "getSample"
    /\ lastRead.slot = Data(Num(0))
    /\ lastRead.result.kind = "existing"
    /\ target["getSample"] = Absent

\* C2: a read of any of the five reserved names returns the management
\* function of that name, whatever the base object holds under the name.
C2_ReservedNamesWin ==
    lastRead.name \in ReservedNames => lastRead.result.kind = lastRead.name

\* C16: when reading a non-reserved name from the base object throws, whatever
\* the error, the read on the proxy does not throw and returns the synthesized
\* remote-call function it returns for an absent member.
C16_ThrowingGetterFallsBack ==
    (lastRead.name \in Names \ ReservedNames /\ lastRead.slot.kind = "getter")
    => /\ lastRead.result = Resolved("defaultTrap", Undef, lastRead.name)
       /\ lastRead.result = GetTrap(EmptyObject, lastRead.name)

\* a getter that throws an error that is not a TypeError was read
C16_Witness ==
    /\ lastRead.name = "getSample"
    /\ lastRead.slot = Getter("Error")
    /\ lastRead.result.kind = "defaultTrap"

----------------------------------------------------------------------------
(* Synthesized calls: the caller constructs a service, calls members the   *)
(* proxy synthesizes, and the transport settles the requests.              *)

\* the argument lists of a synthesized call: for every length up to MaxArgs,
\* the numbers 1..n in ascending and in descending order
ArgSeqs ==
    UNION {{[i \in 1..n |-> Num(i)], [i \in 1..n |-> Num(n + 1 - i)]} : n \in 0..MaxArgs}

\* a base object that owns getSample, as in "Should pick values from existing service"
ExistingService == [EmptyObject EXCEPT !["getSample"] = Data(Fn("own"))]

\* the bodies a server answers with
ResponseDatas == {Serialize(Arr(<<Str("a")>>)), Malformed}

TransportErrors == {"NetworkError"}

NextCall ==
    \/ \E config \in ValidConfigs \cup InvalidConfigs,
          baseService \in {EmptyObject, ExistingService} :
            createService(config, NoAxiosConfig, baseService)
    \/ \E property \in RemoteNames, args \in ArgSeqs : Invoke(property, args)
    \/ \E i \in 1..MaxCalls, data \in ResponseDatas : Resolve(i, data, 200)
    \/ \E i \in 1..MaxCalls, e \in TransportErrors : Reject(i, e)

SpecCall == Init /\ [][NextCall]_vars

\* the latest call was a call of a name that is not reserved and that the
\* base object does not have
SynthesizedCall ==
    /\ created
    /\ lastCall.op \in Names \ ReservedNames
    /\ target[lastCall.op] = Absent

\* the latest call issued exactly one request, to serviceName + "/" + name
OneRequestTo(method, hasBody) ==
    /\ lastCall.outcome = "promise"
    /\ Len(requests) = lastCall.sentBefore + 1
    /\ requests[Len(requests)].method = method
    /\ requests[Len(requests)].hasBody = hasBody
    /\ requests[Len(requests)].url = <<ToStr(serviceName), "/", lastCall.op>>
    /\ requests[Len(requests)].baseURL = http.baseURL

InvalidConstruction ==
    /\ lastCall.op = "createService"
    /\ ~Truthy(lastCall.args[1]) \/ ~Truthy(lastCall.args[2])

C8_ResponseDecoded ==
    \A i \in 1..Len(requests) :
        (/\ requests[i].state = "fulfilled"
         /\ Truthy(withMsgPack) => WellFormed(requests[i].response.data)) =>
            requests[i].result =
                IF Truthy(withMsgPack)
                THEN [requests[i].response EXCEPT !.data = Deserialize(@)]
                ELSE requests[i].response

\* C15: when the transport rejects a request, the call's result is rejected
\* with the transport's error as it is and no further request is issued for
\* the call; when withMsgPack is enabled and the response's body cannot be
\* decoded, the call's result is rejected likewise, with the codec's error.
C15_ErrorsReachTheCaller ==
    /\ \A i \in 1..Len(requests) :
          /\ requests[i].error \in TransportErrors =>
                /\ requests[i].state = "rejected"
                /\ requests[i].rejection = requests[i].error
          /\ (/\ Truthy(withMsgPack)
              /\ requests[i].response # NoResponse
              /\ ~WellFormed(requests[i].response.data)) =>
                /\ requests[i].state = "rejected"
                /\ requests[i].rejection \notin TransportErrors \cup {"none"}
    /\ lastCall.outcome = "promise" => Len(requests) = lastCall.request

----------------------------------------------------------------------------
(* Management calls through the proxy.                                     *)

\* addInterceptor(type), addInterceptor(type, onFulfilled),
\* addInterceptor(type, undefined, onRejected)
InterceptorArgs ==
    {<<Str(type)>> : type \in {"request", "response"}}
    \cup {<<Str(type), Fn("onFulfilled")>> : type \in {"request", "response"}}
    \cup {<<Str(type), Undef, Fn("onRejected")>> : type \in {"request", "response"}}

\* neither handler was passed
NoHandler(args) == \A i \in 2..Len(args) : ~Truthy(args[i])

\* removeInterceptor(type, id)
RemoveInterceptorArgs ==
    {<<Str(type), Num(id)>> : type \in {"request", "response"}, id \in 1..2}

\* a request configuration of the caller's own
DeleteCustom == [method |-> "DELETE", url |-> "custom"]

\* createRequest(config)
CreateRequestArgs == {<<Obj(DeleteCustom)>>}

NextManage ==
    \/ \E config \in ValidConfigs : createService(config, NoAxiosConfig, EmptyObject)
    \/ \E args \in InterceptorArgs : Invoke("addInterceptor", args)
    \/ \E args \in RemoveInterceptorArgs : Invoke("removeInterceptor", args)
    \/ \E args \in CreateRequestArgs : Invoke("createRequest", args)
    \/ \E i \in 1..MaxCalls, data \in ResponseDatas : Resolve(i, data, 200)
    \/ \E i \in 1..MaxCalls, e \in TransportErrors : Reject(i, e)

SpecManage == Init /\ [][NextManage]_vars

\* C9: every addInterceptor call that succeeds returns an identifier, and
\* the identifier is greater than every identifier returned before, whatever
\* the phases.
C9_IdentifiersIncrease ==
    \A i \in 1..Len(addInterceptorReturns) :
        /\ addInterceptorReturns[i].t = "number"
        /\ \A j \in 1..(i - 1) : addInterceptorReturns[j].n < addInterceptorReturns[i].n

\* C10: addInterceptor called with neither handler throws a TypeError
\* synchronously, for both phases, without registering or returning anything.
C10_NoHandlerThrows ==
    (lastCall.op = "addInterceptor" /\ NoHandler(lastCall.args)) =>
        /\ lastCall.outcome = "threw"
        /\ lastCall.error = "TypeError"
        /\ lastCall.value = Undef
        /\ Len(requests) = lastCall.sentBefore

C12_CreateRequestUsesConfig ==
    lastCall.op = "createRequest" =>
        /\ lastCall.outcome = "promise"
        /\ Len(requests) = lastCall.sentBefore + 1
        /\ LET r == requests[lastCall.request]
               config == lastCall.args[1].o IN
           /\ r.method = config.method
           /\ r.url = <<config.url>>
           /\ r.url # <<ToStr(serviceName), "/", "createRequest">>
           /\ r.state = "fulfilled" => r.result = r.response

----------------------------------------------------------------------------
(* Header management interleaved with synthesized calls.                   *)

AxiosConfigs == {NoAxiosConfig, AxiosConfig(TRUE, AcceptJson)}

AddHeadersArgs ==
    {<<>>, <<Null>>, <<Str("x-custom-header")>>, <<Obj(CustomTrue)>>,
     <<Obj(CustomFalse)>>}

RemoveHeadersArgs ==
    {<<>>, <<Str("x-custom-header")>>, <<Str("Accept"), Str("x-custom-header")>>}

NextHeaders ==
    \/ \E config \in ValidConfigs, axiosConfig \in AxiosConfigs :
            createService(config, axiosConfig, EmptyObject)
    \/ \E args \in AddHeadersArgs : Invoke("addHeaders", args)
    \/ \E args \in RemoveHeadersArgs : Invoke("removeHeaders", args)
    \/ Invoke("getSample", <<>>)
    \/ \E i \in 1..MaxCalls : Resolve(i, Serialize(Num(1)), 200)

SpecHeaders == Init /\ [][NextHeaders]_vars

\* what one completed header call makes of a header set, as the claim has it:
\* add overwrites the given names and keeps the others, remove drops the
\* given names, ignores the absent ones and keeps the others
AfterHeaderOp(h, op) ==
    [k \in HeaderNames |->
        IF op.op = "add"
        THEN (IF op.headers[k] # NoHeader THEN op.headers[k] ELSE h[k])
        ELSE (IF \E i \in 1..Len(op.names) : op.names[i] = k THEN NoHeader ELSE h[k])]

RECURSIVE AfterHeaderOps(_, _)
AfterHeaderOps(h, ops) ==
    IF ops = <<>> THEN h
    ELSE AfterHeaderOps(AfterHeaderOp(h, Head(ops)), Tail(ops))

C5_InFlightHeadersKept ==
    [][\A i \in 1..Len(requests) :
          requests[i].state = "pending" =>
              heap'[requests'[i].headers] = heap[requests[i].headers]]_vars

\* a removeHeaders completed while a call was pending, and the pending call
\* still carries the header removed from the defaults
C5_Witness ==
    \E i \in 1..Len(requests) :
        /\ requests[i].state = "pending"
        /\ requests[i].opsSeen < Len(headerOps)
        /\ headerOps[requests[i].opsSeen + 1].op = "remove"
        /\ heap[requests[i].headers]["x-custom-header"] = "true"
        /\ heap[http.headers]["x-custom-header"] = NoHeader


\* the step is a call of `op` on the proxy
CallStep(op) == lastCall' # lastCall /\ lastCall'.op = op

\* addHeaders got no argument, or one that is not an object
NotAnObject(args) ==
    Len(args) = 0 \/ args[1] = Null \/ TypeOf(args[1]) # "object"

\* C13: addHeaders called with no argument or with an argument that is not an
\* object throws a TypeError synchronously and leaves the transport's default
\* headers as they were.
C13_AddHeadersRejectsNonObject ==
    [][(CallStep("addHeaders") /\ NotAnObject(lastCall'.args)) =>
          /\ lastCall'.outcome = "threw"
          /\ lastCall'.error = "TypeError"
          /\ http'.headers = http.headers
          /\ heap'[http'.headers] = heap[http.headers]
          /\ headerOps' = headerOps]_vars

\* addHeaders(null) threw after an addHeaders that merged, and the merged
\* header is still among the defaults
C13_Witness ==
    /\ lastCall.op = "addHeaders"
    /\ lastCall.args = <<Null>>
    /\ lastCall.outcome = "threw"
    /\ Len(headerOps) = 1
    /\ heap[http.headers]["x-custom-header"] = "true"

====
